---- MODULE Spec2Model ----
(***************************************************************************)
(* The operator-facing listener of the maliketh C2 server                  *)
(* (server/maliketh/listeners/admin.py): bearer-token session management   *)
(* and the per-operator task store, together with the client library that  *)
(* calls it (client/comms.py) and the opcode table of the client           *)
(* (client/opcodes.py).                                                    *)
(*                                                                         *)
(* Time is counted in clock ticks, TicksPerSecond of them to a second:     *)
(* datetime.now() has sub-second resolution, while the stored expiry is a  *)
(* "%Y-%m-%d %H:%M:%S" string and so a whole number of seconds.            *)
(***************************************************************************)
EXTENDS Integers, FiniteSets, Sequences, TLC

VARIABLES
    now,        \* datetime.now(), in ticks
    advances,   \* how often the clock has moved (bounds the run)
    operators,  \* Operator table: username -> [auth_token, auth_token_expiry]
    tasks,      \* Task table: task_id -> row, or NoTask
    nextToken,  \* the next value random_hex hands out
    nextTask,   \* the next task id Task.new_task allocates
    req,        \* the request (or external event) handled last
    resp,       \* the response to it
    issued,     \* history: per operator, the token request_token returned last
                \* (None before the first one and after a revocation)
    revoked,    \* history: the token values revoke_token has cleared
    threads,    \* concurrent server: per worker thread, the request in flight
    batchClean, \* concurrent server, history: no request of the current batch
                \* began after another one of it had completed
    config,     \* the client's OperatorConfig: its auth_token
    call        \* the client: the library call in progress, or made last

\* the state of the client (client/comms.py, client/opcodes.py)
client == <<config, call>>

vars == <<now, advances, operators, tasks, nextToken, nextTask, req, resp,
          issued, revoked, threads, batchClean, config, call>>

(***************************** bounds **************************************)
TicksPerSecond == 2
MaxAdvances == 3
MaxTokens == 2
MaxTasks == 1
MaxStored == 2
MaxCase == 4
NumThreads == 2

(************************* data of the program *****************************)
None == -1

Operators == {"alice", "bob"}

login_secret(o) == IF o = "alice" THEN "secret-alice" ELSE "secret-bob"

\* timedelta(hours=6), in seconds
TokenLifetime == 6 * 3600

\* datetime.strftime(t, "%Y-%m-%d %H:%M:%S"): the sub-second part is dropped
strftime(t) == t \div TicksPerSecond

\* datetime.strptime(s, "%Y-%m-%d %H:%M:%S")
strptime(s) == s * TicksPerSecond

\* class Opcodes(Enum)
Opcodes == [CMD |-> 1, SELFDESTRUCT |-> 2, SYSINFO |-> 3, SLEEP |-> 4,
            UPDATE_CONFIG |-> 5, DOWNLOAD |-> 6, UPLOAD |-> 7, INJECT |-> 8]

OpcodeValues == {Opcodes[n] : n \in DOMAIN Opcodes}

\* The members of the enumeration in the order of their declaration, which is
\* the order "for opcode in Opcodes" visits them in.  A str is the sequence of
\* its characters.
Members ==
    << [name |-> <<"C", "M", "D">>, value |-> Opcodes.CMD],
       [name |-> <<"S", "E", "L", "F", "D", "E", "S", "T", "R", "U", "C", "T">>,
        value |-> Opcodes.SELFDESTRUCT],
       [name |-> <<"S", "Y", "S", "I", "N", "F", "O">>, value |-> Opcodes.SYSINFO],
       [name |-> <<"S", "L", "E", "E", "P">>, value |-> Opcodes.SLEEP],
       [name |-> <<"U", "P", "D", "A", "T", "E", "_", "C", "O", "N", "F", "I", "G">>,
        value |-> Opcodes.UPDATE_CONFIG],
       [name |-> <<"D", "O", "W", "N", "L", "O", "A", "D">>, value |-> Opcodes.DOWNLOAD],
       [name |-> <<"U", "P", "L", "O", "A", "D">>, value |-> Opcodes.UPLOAD],
       [name |-> <<"I", "N", "J", "E", "C", "T">>, value |-> Opcodes.INJECT] >>

\* the lower-case letter of each upper-case letter
LowerCase ==
    [A |-> "a", C |-> "c", D |-> "d", E |-> "e", F |-> "f", G |-> "g", I |-> "i",
     J |-> "j", L |-> "l", M |-> "m", N |-> "n", O |-> "o", P |-> "p", R |-> "r",
     S |-> "s", T |-> "t", U |-> "u", W |-> "w", Y |-> "y"]

\* str.lower(): every upper-case letter is replaced, all else is kept
lower(str) ==
    [i \in DOMAIN str |->
        IF str[i] \in DOMAIN LowerCase THEN LowerCase[str[i]] ELSE str[i]]

\* the first member in declaration order that satisfies Hit, 0 if none does
FirstMember(Hit(_)) ==
    LET hits == {k \in DOMAIN Members : Hit(Members[k])}
    IN  IF hits = {} THEN 0
        ELSE CHOOSE k \in hits : \A j \in hits : k <= j

\* get_by_name comparing the names as they are written
get_by_name_case_sensitive(name) ==
    LET Hit(opcode) == opcode.name = name
        k == FirstMember(Hit)
    IN  IF k = 0 THEN None ELSE Members[k].value

\* Opcodes.get_by_name(name)
get_by_name(name) ==
    LET Hit(opcode) == opcode.name = name \/ lower(opcode.name) = lower(name)
        k == FirstMember(Hit)
    IN  IF k = 0 THEN None ELSE Members[k].value

\* what get_by_value returns when it returns None
NoName == << >>

\* Opcodes.get_by_value(value)
get_by_value(value) ==
    LET Hit(opcode) == opcode.value = value
        k == FirstMember(Hit)
    IN  IF k = 0 THEN NoName ELSE Members[k].name

\* name with the letters at the positions in `at` written in lower case
Variant(name, at) ==
    [i \in DOMAIN name |->
        IF i \in at /\ name[i] \in DOMAIN LowerCase THEN LowerCase[name[i]]
        ELSE name[i]]

\* the spellings of a name tried: any of its first MaxCase letters in lower
\* case, and all of them
Spellings(name) ==
    {Variant(name, at) : at \in SUBSET (1..MaxCase)} \cup {lower(name)}

\* strings that are no name of a member in any letter case
OutsideNames ==
    { <<"C", "M">>, <<"C", "M", "D", "S">>, <<"N", "O", "P">>, <<"c", "m", "d", " ">>,
      <<"U", "P", "D", "A", "T", "E", "-", "C", "O", "N", "F", "I", "G">>,
      <<"U", "P", "D", "A", "T", "E", "C", "O", "N", "F", "I", "G">>,
      <<"1">> }

Names == UNION {Spellings(Members[k].name) : k \in DOMAIN Members} \cup OutsideNames

\* the values tried: those of the members, and one below and one above them
Values == 0..(Len(Members) + 1)

(***************************** requests ************************************)
NoHeader == [prefix |-> "", rest |-> None]

Bearer(t) == [prefix |-> "Bearer ", rest |-> t]

Headers == {NoHeader, [prefix |-> "Basic ", rest |-> 1]}
               \cup {Bearer(t) : t \in 1..MaxTokens}

Absent == "<absent>"

XIDs == {Absent, "", "alice", "bob", "mallory"}

\* An X-Signature blob: who signed it, whether it still decrypts and verifies,
\* and the plaintext inside.
Blobs == [signer : Operators, intact : BOOLEAN,
          plaintext : {login_secret(o) : o \in Operators}]

\* what the operator's own client sends: enc_and_sign_secret()
GoodBlob(o) == [signer |-> o, intact |-> TRUE, plaintext |-> login_secret(o)]

NoBlob == [signer |-> Absent, intact |-> FALSE, plaintext |-> Absent]

EmptyBlob == [signer |-> "", intact |-> FALSE, plaintext |-> ""]

XSigs == {NoBlob, EmptyBlob} \cup Blobs

required_fields == {"implant_id", "opcode", "args"}

UnknownOpcode == 99

\* request.json of an add_task request: no JSON at all, or an object with
\* some of the fields; opcode is the value of its "opcode" field
Bodies == {[json |-> FALSE, keys |-> {}, opcode |-> None]}
            \cup {[json |-> TRUE, keys |-> k, opcode |-> None] :
                     k \in SUBSET (required_fields \ {"opcode"})}
            \cup {[json |-> TRUE, keys |-> k \cup {"opcode"}, opcode |-> c] :
                     k \in SUBSET (required_fields \ {"opcode"}),
                     c \in {Opcodes.CMD, UnknownOpcode}}

NoBody == [json |-> FALSE, keys |-> {}, opcode |-> None]

\* the task ids the Task table has room for
TaskIds == DOMAIN tasks

\* the task ids a request path names: those, and one that is never stored
PathIds == 1..(Cardinality(TaskIds) + 1)

NoTask == [task_id |-> None, operator_id |-> "", opcode |-> None, output |-> None]

\* what is kept of the request handled last: the endpoint, the Authorization
\* header, the X-ID header and the task id of the path
Request(ep, header, xid, task_id) ==
    [ep |-> ep, header |-> header, xid |-> xid, task_id |-> task_id]

(***************************** responses ***********************************)
\* jsonify({"status": ..., key: ...}), code.  key is the name of the field that
\* accompanies "status"; the field's value is in msg, token, fields (the field
\* names an error message lists), tasklist, result or implants, according to
\* its type.
Reply(code, status, key, msg) ==
    [code |-> code, status |-> status, key |-> key, msg |-> msg,
     token |-> None, fields |-> {}, tasklist |-> {}, result |-> None,
     implants |-> {}]

NotAuthenticated == Reply(401, FALSE, "msg", "Not authenticated")

UnknownTask == Reply(400, FALSE, "msg", "Unknown task")

Unauthorized == Reply(401, FALSE, "msg", "Unauthorized")

\* what Flask answers when a handler raises
InternalError == Reply(500, FALSE, "none", "Internal Server Error")

NoReply == Reply(0, FALSE, "none", "")

(************************* authentication gate *****************************)
NoOperator == "<None>"

Raised == "<TypeError>"

\* Operator.query.filter_by(auth_token=token).first()
OperatorByToken(ops, token) ==
    LET found == {o \in Operators : ops[o].auth_token = token}
    IN  IF found = {} THEN NoOperator ELSE CHOOSE o \in found : TRUE

\* verify_auth_token(request): the operator the bearer token belongs to, or None
verify_auth_token(header, ops, t) ==
    IF header = NoHeader THEN NoOperator
    ELSE IF header.prefix # "Bearer " THEN NoOperator
    ELSE LET token == header.rest
             operator == OperatorByToken(ops, token)
         IN  IF operator = NoOperator THEN NoOperator
             ELSE IF ops[operator].auth_token_expiry = None THEN Raised
             ELSE IF strptime(ops[operator].auth_token_expiry) < t
                  THEN NoOperator
                  ELSE operator

\* @verified: the response the wrapper itself gives, NoReply when it calls func
verified(header, ops, t) ==
    LET operator == verify_auth_token(header, ops, t)
    IN  IF operator = Raised THEN InternalError
        ELSE IF operator = NoOperator THEN NotAuthenticated
        ELSE NoReply

(***************************** request_token *******************************)
NoPlaintext == "<None>"

\* crypto.ec.decrypt_and_verify(blob, operator): the plaintext, or None
decrypt_and_verify(xsig, operator) ==
    IF xsig.intact /\ xsig.signer = operator THEN xsig.plaintext ELSE NoPlaintext

\* request_token up to "the operator is authenticated": the failure response,
\* NoReply when every check passes
authenticate(xid, xsig) ==
    IF xid = Absent \/ xsig = NoBlob
    THEN Reply(400, FALSE, "message", "Unknown operator key")
    ELSE IF xid = "" \/ xsig = EmptyBlob
    THEN Reply(400, FALSE, "message", "Unknown operator key")
    ELSE IF xid \notin Operators
    THEN Reply(400, FALSE, "message", "Unknown operator")
    ELSE LET original_message == decrypt_and_verify(xsig, xid)
         IN  IF original_message = NoPlaintext
             THEN Reply(400, FALSE, "msg", "Couldn't verify signature")
             ELSE IF original_message # login_secret(xid)
             THEN Reply(400, FALSE, "msg", "Unable to verify signature")
             ELSE NoReply

\* still_valid with the comparison turned round
still_valid_inverted(row, t) ==
    /\ row.auth_token_expiry # None
    /\ strptime(row.auth_token_expiry) < t

\* "the token is still valid" as request_token tests it on the loaded row
still_valid(row, t) ==
    /\ row.auth_token_expiry # None
    /\ strptime(row.auth_token_expiry) > t

\* crypto.utils.random_hex(128): a value never handed out before
random_hex == nextToken

\* the row request_token leaves for the operator whose loaded row is `row`
issued_row(row, t) ==
    IF still_valid(row, t) THEN row
    ELSE [auth_token |-> random_hex,
          auth_token_expiry |-> strftime(t + TokenLifetime * TicksPerSecond)]

TokenReply(token) ==
    [Reply(200, TRUE, "token", "") EXCEPT !.token = token]

\* request_token moving the expiry on when it returns the stored token
request_token_sliding(xid, xsig) ==
    /\ req' = Request("request_token", NoHeader, xid, None)
    /\ IF authenticate(xid, xsig) # NoReply
       THEN /\ resp' = authenticate(xid, xsig)
            /\ UNCHANGED <<operators, nextToken, issued>>
       ELSE IF still_valid(operators[xid], now)
       THEN /\ resp' = TokenReply(operators[xid].auth_token)
            /\ issued' = [issued EXCEPT ![xid] = operators[xid].auth_token]
            /\ operators' = [operators EXCEPT ![xid].auth_token_expiry =
                                strftime(now + TokenLifetime * TicksPerSecond)]
            /\ UNCHANGED nextToken
       ELSE /\ nextToken <= MaxTokens
            /\ operators' = [operators EXCEPT ![xid] = issued_row(@, now)]
            /\ nextToken' = nextToken + 1
            /\ resp' = TokenReply(random_hex)
            /\ issued' = [issued EXCEPT ![xid] = random_hex]
    /\ UNCHANGED <<now, advances, tasks, nextTask, revoked, threads, batchClean>>

\* GET /op/auth/token/request, handled in one piece
request_token(xid, xsig) ==
    /\ req' = Request("request_token", NoHeader, xid, None)
    /\ IF authenticate(xid, xsig) # NoReply
       THEN /\ resp' = authenticate(xid, xsig)
            /\ UNCHANGED <<operators, nextToken, issued>>
       ELSE IF still_valid(operators[xid], now)
       THEN /\ resp' = TokenReply(operators[xid].auth_token)
            /\ issued' = [issued EXCEPT ![xid] = operators[xid].auth_token]
            /\ UNCHANGED <<operators, nextToken>>
       ELSE /\ nextToken <= MaxTokens
            /\ operators' = [operators EXCEPT ![xid] = issued_row(@, now)]
            /\ nextToken' = nextToken + 1
            /\ resp' = TokenReply(random_hex)
            /\ issued' = [issued EXCEPT ![xid] = random_hex]
    /\ UNCHANGED <<now, advances, tasks, nextTask, revoked, threads, batchClean>>

(***************************** revoke_token ********************************)
ClearedRow == [auth_token |-> None, auth_token_expiry |-> None]

\* revoke_token without line 141: the token is left in place
revoke_token_keeps_token(header) ==
    LET operator == verify_auth_token(header, operators, now)
    IN  /\ req' = Request("revoke_token", header, Absent, None)
        /\ IF verified(header, operators, now) # NoReply
           THEN /\ resp' = verified(header, operators, now)
                /\ UNCHANGED <<operators, issued, revoked>>
           ELSE /\ operators' = [operators EXCEPT
                                    ![operator].auth_token_expiry = None]
                /\ resp' = Reply(200, TRUE, "none", "")
                /\ issued' = [issued EXCEPT ![operator] = None]
                /\ revoked' = revoked \cup {operators[operator].auth_token}
        /\ UNCHANGED <<now, advances, tasks, nextToken, nextTask, threads,
                       batchClean>>

\* revoke_token without line 142: the expiry is left in place
revoke_token_keeps_expiry(header) ==
    LET operator == verify_auth_token(header, operators, now)
    IN  /\ req' = Request("revoke_token", header, Absent, None)
        /\ IF verified(header, operators, now) # NoReply
           THEN /\ resp' = verified(header, operators, now)
                /\ UNCHANGED <<operators, issued, revoked>>
           ELSE /\ operators' = [operators EXCEPT ![operator].auth_token = None]
                /\ resp' = Reply(200, TRUE, "none", "")
                /\ issued' = [issued EXCEPT ![operator] = None]
                /\ revoked' = revoked \cup {operators[operator].auth_token}
        /\ UNCHANGED <<now, advances, tasks, nextToken, nextTask, threads,
                       batchClean>>

\* GET /op/auth/token/revoke
revoke_token(header) ==
    LET operator == verify_auth_token(header, operators, now)
    IN  /\ req' = Request("revoke_token", header, Absent, None)
        /\ IF verified(header, operators, now) # NoReply
           THEN /\ resp' = verified(header, operators, now)
                /\ UNCHANGED <<operators, issued, revoked>>
           ELSE /\ operators' = [operators EXCEPT ![operator] = ClearedRow]
                /\ resp' = Reply(200, TRUE, "none", "")
                /\ issued' = [issued EXCEPT ![operator] = None]
                /\ revoked' = revoked \cup {operators[operator].auth_token}
        /\ UNCHANGED <<now, advances, tasks, nextToken, nextTask, threads,
                       batchClean>>

(******************************* tasks **************************************)
\* Task.query.filter_by(task_id=task_id).first(); NoTask stands for None
TaskById(task_id) == IF task_id \in TaskIds THEN tasks[task_id] ELSE NoTask

\* Task.query.filter_by(operator_id=operator.username).all()
TasksOf(operator) ==
    {tasks[i] : i \in {j \in TaskIds : tasks[j] # NoTask
                                         /\ tasks[j].operator_id = operator}}

\* Task.new_task(operator_name, implant_id, opcode, args): the stored row,
\* under a task id no task was given before, with no output yet
new_task(operator_name, opcode) ==
    [task_id |-> nextTask, operator_id |-> operator_name, opcode |-> opcode,
     output |-> None]

\* list_tasks without the filter on operator_id: every stored task is listed
list_tasks_unfiltered(header) ==
    /\ req' = Request("list_tasks", header, Absent, None)
    /\ IF verified(header, operators, now) # NoReply
       THEN resp' = verified(header, operators, now)
       ELSE resp' = [Reply(200, TRUE, "tasks", "")
                        EXCEPT !.tasklist = {tasks[i] : i \in TaskIds} \ {NoTask}]
    /\ UNCHANGED <<now, advances, operators, tasks, nextToken, nextTask,
                   issued, revoked, threads, batchClean>>

\* GET /op/tasks/list
list_tasks(header) ==
    LET operator == verify_auth_token(header, operators, now)
    IN  /\ req' = Request("list_tasks", header, Absent, None)
        /\ IF verified(header, operators, now) # NoReply
           THEN resp' = verified(header, operators, now)
           ELSE resp' = [Reply(200, TRUE, "tasks", "")
                            EXCEPT !.tasklist = TasksOf(operator)]
        /\ UNCHANGED <<now, advances, operators, tasks, nextToken, nextTask,
                       issued, revoked, threads, batchClean>>

\* add_task storing the task under another operator's name than the caller's
add_task_other_owner(header, body) ==
    LET operator == verify_auth_token(header, operators, now)
        other == CHOOSE o \in Operators : o # operator
    IN  /\ req' = Request("add_task", header, Absent, None)
        /\ IF verified(header, operators, now) # NoReply
           THEN /\ resp' = verified(header, operators, now)
                /\ UNCHANGED <<tasks, nextTask>>
           ELSE IF ~body.json
           THEN /\ resp' = Reply(400, FALSE, "msg", "Invalid request, no JSON body")
                /\ UNCHANGED <<tasks, nextTask>>
           ELSE IF \E x \in required_fields : x \notin body.keys
           THEN /\ resp' = [Reply(400, FALSE, "msg", "Invalid task, missing fields")
                               EXCEPT !.fields = required_fields \ body.keys]
                /\ UNCHANGED <<tasks, nextTask>>
           ELSE /\ nextTask \in TaskIds
                /\ tasks' = [tasks EXCEPT ![nextTask] = new_task(other, body.opcode)]
                /\ nextTask' = nextTask + 1
                /\ resp' = [Reply(200, TRUE, "task", "")
                               EXCEPT !.tasklist = {new_task(other, body.opcode)}]
        /\ UNCHANGED <<now, advances, operators, nextToken, issued, revoked, threads,
                       batchClean>>

\* POST /op/tasks/add
add_task(header, body) ==
    LET operator == verify_auth_token(header, operators, now)
    IN  /\ req' = Request("add_task", header, Absent, None)
        /\ IF verified(header, operators, now) # NoReply
           THEN /\ resp' = verified(header, operators, now)
                /\ UNCHANGED <<tasks, nextTask>>
           ELSE IF ~body.json
           THEN /\ resp' = Reply(400, FALSE, "msg", "Invalid request, no JSON body")
                /\ UNCHANGED <<tasks, nextTask>>
           ELSE IF \E x \in required_fields : x \notin body.keys
           THEN /\ resp' = [Reply(400, FALSE, "msg", "Invalid task, missing fields")
                               EXCEPT !.fields = required_fields \ body.keys]
                /\ UNCHANGED <<tasks, nextTask>>
           ELSE /\ nextTask \in TaskIds
                /\ tasks' = [tasks EXCEPT ![nextTask] = new_task(operator, body.opcode)]
                /\ nextTask' = nextTask + 1
                /\ resp' = [Reply(200, TRUE, "task", "")
                               EXCEPT !.tasklist = {new_task(operator, body.opcode)}]
        /\ UNCHANGED <<now, advances, operators, nextToken, issued, revoked, threads,
                       batchClean>>

\* task_access without the ownership test
task_access_no_owner(operator, task_id) ==
    IF TaskById(task_id) = NoTask THEN UnknownTask ELSE NoReply

\* task_access with the ownership test made before the existence test
task_access_owner_first(operator, task_id) ==
    LET task == TaskById(task_id)
    IN  IF task.operator_id # operator THEN Unauthorized
        ELSE IF task = NoTask THEN UnknownTask
        ELSE NoReply

\* what get_task_result and delete_task answer before they act: the task must
\* exist, and must be the caller's
task_access(operator, task_id) ==
    LET task == TaskById(task_id)
    IN  IF task = NoTask THEN UnknownTask
        ELSE IF task.operator_id # operator THEN Unauthorized
        ELSE NoReply

\* GET /op/tasks/result/<task_id>
get_task_result(header, task_id) ==
    LET operator == verify_auth_token(header, operators, now)
    IN  /\ req' = Request("get_task_result", header, Absent, task_id)
        /\ IF verified(header, operators, now) # NoReply
           THEN resp' = verified(header, operators, now)
           ELSE IF task_access(operator, task_id) # NoReply
           THEN resp' = task_access(operator, task_id)
           ELSE resp' = [Reply(200, TRUE, "result", "")
                            EXCEPT !.result = TaskById(task_id).output]
        /\ UNCHANGED <<now, advances, operators, tasks, nextToken, nextTask,
                       issued, revoked, threads, batchClean>>

\* delete_task without lines 226-227: it answers success and keeps the row
delete_task_keeps_row(header, task_id) ==
    LET operator == verify_auth_token(header, operators, now)
    IN  /\ req' = Request("delete_task", header, Absent, task_id)
        /\ IF verified(header, operators, now) # NoReply
           THEN resp' = verified(header, operators, now)
           ELSE IF task_access(operator, task_id) # NoReply
           THEN resp' = task_access(operator, task_id)
           ELSE resp' = Reply(200, TRUE, "none", "")
        /\ UNCHANGED <<now, advances, operators, tasks, nextToken, nextTask, issued,
                       revoked, threads, batchClean>>

\* DELETE /op/tasks/delete/<task_id>
delete_task(header, task_id) ==
    LET operator == verify_auth_token(header, operators, now)
    IN  /\ req' = Request("delete_task", header, Absent, task_id)
        /\ IF verified(header, operators, now) # NoReply
           THEN /\ resp' = verified(header, operators, now)
                /\ UNCHANGED tasks
           ELSE IF task_access(operator, task_id) # NoReply
           THEN /\ resp' = task_access(operator, task_id)
                /\ UNCHANGED tasks
           ELSE /\ tasks' = [tasks EXCEPT ![task_id] = NoTask]
                /\ resp' = Reply(200, TRUE, "none", "")
        /\ UNCHANGED <<now, advances, operators, nextToken, nextTask, issued,
                       revoked, threads, batchClean>>

\* The implant-facing side stores a task's output (outside this listener).
Output == 7

set_output(task_id) ==
    /\ tasks[task_id] # NoTask
    /\ tasks[task_id].output = None
    /\ tasks' = [tasks EXCEPT ![task_id].output = Output]
    /\ req' = Request("set_output", NoHeader, Absent, task_id)
    /\ resp' = NoReply
    /\ UNCHANGED <<now, advances, operators, nextToken, nextTask, issued,
                   revoked, threads, batchClean>>

(******************************* clock **************************************)
\* how far the clock moves between two requests: one tick, or one tick less
\* than the lifetime of a token
ClockSteps == {1, TokenLifetime * TicksPerSecond - 1}

Tick(d) ==
    /\ advances < MaxAdvances
    /\ now' = now + d
    /\ advances' = advances + 1
    /\ req' = Request("tick", NoHeader, Absent, None)
    /\ resp' = NoReply
    /\ UNCHANGED <<operators, tasks, nextToken, nextTask, issued, revoked, threads,
                   batchClean>>

(*************************** the server *************************************)
\* what a library call gives back: kind is "return", "raise" (an exception
\* leaves the call) or "exit" (sys.exit), error the exception that occurred
\* inside the call, value the Python value returned
PyValue(type, items, scalar) == [type |-> type, items |-> items, scalar |-> scalar]

PyNone == PyValue("NoneType", {}, None)

PyList(items) == PyValue("list", items, None)

PyDict(items) == PyValue("dict", items, None)

\* a str: the empty one, or the output of a task
EmptyStr == 0

PyStr(chars) == PyValue("str", {}, chars)

Outcome(kind, value, error) == [kind |-> kind, value |-> value, error |-> error]

NoResult == Outcome("none", PyNone, "none")

Return(value) == Outcome("return", value, "none")

\* no library call made yet
NoCall == [op |-> "none", arg |-> None, stage |-> "idle", result |-> NoResult]

IdleThread == [pc |-> "idle", operator |-> NoOperator, row |-> ClearedRow,
               token |-> None]

\* the server as it starts: no tokens, and an empty Task table with room for
\* capacity tasks
Setup(capacity) ==
    /\ now = 0
    /\ advances = 0
    /\ operators = [o \in Operators |-> ClearedRow]
    /\ tasks = [i \in 1..capacity |-> NoTask]
    /\ nextToken = 1
    /\ nextTask = 1
    /\ req = Request("none", NoHeader, Absent, None)
    /\ resp = NoReply
    /\ issued = [o \in Operators |-> None]
    /\ revoked = {}
    /\ threads = [t \in 1..NumThreads |-> IdleThread]
    /\ batchClean = TRUE
    /\ config = [auth_token |-> None]
    /\ call = NoCall

Init == Setup(MaxTasks)

RequestToken ==
    /\ \E xid \in XIDs, xsig \in XSigs : request_token(xid, xsig)
    /\ UNCHANGED client

RevokeToken ==
    /\ \E h \in Headers : revoke_token(h)
    /\ UNCHANGED client

ListTasks ==
    /\ \E h \in Headers : list_tasks(h)
    /\ UNCHANGED client

AddTask ==
    /\ \E h \in Headers, body \in Bodies : add_task(h, body)
    /\ UNCHANGED client

GetTaskResult ==
    /\ \E h \in Headers, i \in PathIds : get_task_result(h, i)
    /\ UNCHANGED client

DeleteTask ==
    /\ \E h \in Headers, i \in PathIds : delete_task(h, i)
    /\ UNCHANGED client

SetOutput ==
    /\ \E i \in TaskIds : set_output(i)
    /\ UNCHANGED client

Clock ==
    /\ \E d \in ClockSteps : Tick(d)
    /\ UNCHANGED client

Next ==
    \/ RequestToken
    \/ RevokeToken
    \/ ListTasks
    \/ AddTask
    \/ GetTaskResult
    \/ DeleteTask
    \/ SetOutput
    \/ Clock

Spec == Init /\ [][Next]_vars

(************************** the opcode table ********************************)
\* the front end looks an opcode up by the name typed in, or by its value
GetByName ==
    /\ \E name \in Names :
           call' = [op |-> "get_by_name", arg |-> name, stage |-> "idle",
                    result |-> get_by_name(name)]
    /\ UNCHANGED <<now, advances, operators, tasks, nextToken, nextTask, req, resp,
                   issued, revoked, threads, batchClean, config>>

GetByValue ==
    /\ \E value \in Values :
           call' = [op |-> "get_by_value", arg |-> value, stage |-> "idle",
                    result |-> get_by_value(value)]
    /\ UNCHANGED <<now, advances, operators, tasks, nextToken, nextTask, req, resp,
                   issued, revoked, threads, batchClean, config>>

NextOpcodes ==
    \/ GetByName
    \/ GetByValue

SpecOpcodes == Init /\ [][NextOpcodes]_vars

(******************************* the client *********************************)
(* client/comms.py: every library call first runs ensure_token and then     *)
(* sends its own request.  Each HTTP request is one step; the server        *)
(* handles it in that step, or the connection fails.                        *)

\* all of the state but the client's
server == <<now, advances, operators, tasks, nextToken, nextTask, req, resp,
            issued, revoked, threads, batchClean>>

\* config.name: the operator the client is configured for
ClientName == "alice"

\* the implants registered, and the implant ids a call may name
Implants == {"abc123"}

ImplantIds == Implants \cup {"ffffff"}

\* the URL map: the routes admin.py registers, and the routes of the operator
\* interface that are registered elsewhere
Routes ==
    { [method |-> "GET", rule |-> "/op/auth/token/request", endpoint |-> "request_token"],
      [method |-> "GET", rule |-> "/op/auth/token/revoke", endpoint |-> "revoke_token"],
      [method |-> "GET", rule |-> "/op/tasks/list", endpoint |-> "list_tasks"],
      [method |-> "POST", rule |-> "/op/tasks/add", endpoint |-> "add_task"],
      [method |-> "GET", rule |-> "/op/tasks/result/<task_id>",
       endpoint |-> "get_task_result"],
      [method |-> "DELETE", rule |-> "/op/tasks/delete/<task_id>",
       endpoint |-> "delete_task"],
      [method |-> "GET", rule |-> "/op/auth/token/status", endpoint |-> "token_status"],
      [method |-> "GET", rule |-> "/op/implant/list", endpoint |-> "list_implants"],
      [method |-> "POST", rule |-> "/op/implant/config/<implant_id>",
       endpoint |-> "update_profile"],
      [method |-> "DELETE", rule |-> "/op/implant/kill/<implant_id>",
       endpoint |-> "kill"] }

\* Flask's dispatch: the endpoint registered for the method and the path, the
\* path written with the name of its variable part
endpoint_of(method, rule) ==
    LET found == {r \in Routes : r.method = method /\ r.rule = rule}
    IN  IF found = {} THEN "not_found" ELSE (CHOOSE r \in found : TRUE).endpoint

\* Flask's answer to a path no route matches: an HTML page, no JSON
NotFound == Reply(404, FALSE, "<html>", "Not Found")

\* response.json() succeeds
is_json(response) == response.key # "<html>"

\* an HTTP request of the client: headers maps header names to values, id is
\* the variable part of the path
HttpRequest(method, rule, id, headers, body) ==
    [method |-> method, rule |-> rule, id |-> id, headers |-> headers, body |-> body]

\* request.headers.get(name, default)
HeaderGet(headers, name, default) ==
    IF name \in DOMAIN headers THEN headers[name] ELSE default

\* GET /op/auth/token/status: bearer-protected, answers {status: bool}
token_status(header) ==
    /\ req' = Request("token_status", header, Absent, None)
    /\ IF verified(header, operators, now) # NoReply
       THEN resp' = verified(header, operators, now)
       ELSE resp' = Reply(200, TRUE, "none", "")
    /\ UNCHANGED <<now, advances, operators, tasks, nextToken, nextTask,
                   issued, revoked, threads, batchClean>>

\* GET /op/implant/list: bearer-protected, answers {implants: [...]}
implant_list(header) ==
    /\ req' = Request("list_implants", header, Absent, None)
    /\ IF verified(header, operators, now) # NoReply
       THEN resp' = verified(header, operators, now)
       ELSE resp' = [Reply(200, TRUE, "implants", "") EXCEPT !.implants = Implants]
    /\ UNCHANGED <<now, advances, operators, tasks, nextToken, nextTask,
                   issued, revoked, threads, batchClean>>

\* POST /op/implant/config/<implant_id> and DELETE /op/implant/kill/<implant_id>:
\* bearer-protected, answer {status}; the registry itself is not modelled
implant_route(endpoint, header, implant_id) ==
    /\ req' = Request(endpoint, header, Absent, None)
    /\ IF verified(header, operators, now) # NoReply
       THEN resp' = verified(header, operators, now)
       ELSE IF implant_id \notin Implants
       THEN resp' = Reply(400, FALSE, "msg", "Unknown implant")
       ELSE resp' = Reply(200, TRUE, "none", "")
    /\ UNCHANGED <<now, advances, operators, tasks, nextToken, nextTask,
                   issued, revoked, threads, batchClean>>

\* a request for a path without route
not_found(r) ==
    /\ req' = Request("not_found", HeaderGet(r.headers, "Authorization", NoHeader),
                      Absent, None)
    /\ resp' = NotFound
    /\ UNCHANGED <<now, advances, operators, tasks, nextToken, nextTask,
                   issued, revoked, threads, batchClean>>

\* the server handles the HTTP request r
serve(r) ==
    LET endpoint == endpoint_of(r.method, r.rule)
        header == HeaderGet(r.headers, "Authorization", NoHeader)
    IN  \/ /\ endpoint = "request_token"
           /\ request_token(HeaderGet(r.headers, "X-ID", Absent),
                            HeaderGet(r.headers, "X-Signature", NoBlob))
        \/ endpoint = "revoke_token" /\ revoke_token(header)
        \/ endpoint = "list_tasks" /\ list_tasks(header)
        \/ endpoint = "add_task" /\ add_task(header, r.body)
        \/ endpoint = "get_task_result" /\ get_task_result(header, r.id)
        \/ endpoint = "delete_task" /\ delete_task(header, r.id)
        \/ endpoint = "token_status" /\ token_status(header)
        \/ endpoint = "list_implants" /\ implant_list(header)
        \/ /\ endpoint \in {"update_profile", "kill"}
           /\ implant_route(endpoint, header, r.id)
        \/ endpoint = "not_found" /\ not_found(r)

\* the library calls made, with their arguments
Calls ==
    {[op |-> op, arg |-> None] : op \in {"ensure_token", "list_implants", "get_tasks"}}
        \cup {[op |-> "add_task", arg |-> Opcodes.CMD]}
        \cup {[op |-> "get_task_result", arg |-> i] : i \in PathIds}
        \cup {[op |-> op, arg |-> i] :
                 op \in {"update_implant_profile", "kill_implant"}, i \in ImplantIds}

\* the calls whose body is inside try: ... except Exception
Caught == {"list_implants", "get_tasks", "add_task", "get_task_result"}

\* what the except clause of a call returns
except_value(op) ==
    CASE op \in {"list_implants", "get_tasks"} -> PyList({})
      [] op = "add_task" -> PyDict({})
      [] op = "get_task_result" -> PyStr(EmptyStr)

\* exception error occurs inside call op: the outcome of the call
raised(op, error) ==
    IF op \in Caught THEN Outcome("return", except_value(op), error)
    ELSE Outcome("raise", PyNone, error)

\* sys.exit(1)
Exited == Outcome("exit", PyNone, "SystemExit")

\* the call ends
finish(outcome) ==
    call' = [call EXCEPT !.stage = IF outcome.kind = "exit" THEN "exited" ELSE "idle",
                         !.result = outcome]

\* ensure_token has returned: the call sends its own request, and
\* ensure_token called on its own returns
proceed ==
    IF call.op = "ensure_token" THEN finish(Return(PyNone))
    ELSE call' = [call EXCEPT !.stage = "request"]

\* a library call begins with ensure_token, line 99: is there a token at all
Start(c) ==
    /\ call.stage = "idle"
    /\ call' = [op |-> c.op, arg |-> c.arg,
                stage |-> IF config.auth_token = None THEN "auth" ELSE "check",
                result |-> NoResult]
    /\ UNCHANGED <<server, config>>

\* server_auth's request, with config.enc_and_sign_secret()
server_auth_request ==
    HttpRequest("GET", "/op/auth/token/request", None,
                ("X-ID" :> ClientName) @@ ("X-Signature" :> GoodBlob(ClientName)),
                NoBody)

\* handle_server_auth (ensure_token lines 100 and 102): server_auth, then the
\* token is stored in config, or the process exits
handle_server_auth(up) ==
    /\ call.stage \in {"auth", "reauth"}
    /\ IF ~up
       THEN /\ finish(Exited)
            /\ UNCHANGED <<server, config>>
       ELSE /\ serve(server_auth_request)
            /\ IF resp'.code = 200
               THEN /\ config' = [config EXCEPT !.auth_token = resp'.token]
                    /\ IF call.stage = "auth"
                       THEN call' = [call EXCEPT !.stage = "check"]
                       ELSE proceed
               ELSE /\ IF resp'.key = "msg"
                       THEN finish(Exited)
                       ELSE finish(raised(call.op, "KeyError"))
                    /\ UNCHANGED config

\* check_auth_token's request
check_auth_token_request ==
    HttpRequest("GET", "/op/auth/token/status", None,
                "Authentication" :> Bearer(config.auth_token), NoBody)

\* check_auth_token (ensure_token line 101)
check_auth_token(up) ==
    /\ call.stage = "check"
    /\ UNCHANGED config
    /\ IF ~up
       THEN /\ finish(raised(call.op, "ConnectionError"))
            /\ UNCHANGED server
       ELSE /\ serve(check_auth_token_request)
            /\ IF ~is_json(resp')
               THEN finish(raised(call.op, "JSONDecodeError"))
               ELSE IF resp'.status
               THEN proceed
               ELSE call' = [call EXCEPT !.stage = "reauth"]

\* the request the call sends once ensure_token has returned
request_of(op, arg) ==
    LET headers == "Authorization" :> Bearer(config.auth_token)
    IN  CASE op = "list_implants" ->
               HttpRequest("GET", "/op/implant/list", None, headers, NoBody)
          [] op = "get_tasks" ->
               HttpRequest("GET", "/op/tasks/list", None, headers, NoBody)
          [] op = "add_task" ->
               HttpRequest("POST", "/op/tasks/add", None, headers,
                           [json |-> TRUE, keys |-> required_fields, opcode |-> arg])
          [] op = "get_task_result" ->
               HttpRequest("GET", "/op/tasks/results/<task_id>", arg, headers, NoBody)
          [] op = "update_implant_profile" ->
               HttpRequest("POST", "/op/implant/config/<implant_id>", arg, headers,
                           NoBody)
          [] op = "kill_implant" ->
               HttpRequest("DELETE", "/op/implant/kill/<implant_id>", arg, headers,
                           NoBody)

\* what the call makes of the response to its request
outcome_of(op, response) ==
    IF ~is_json(response) THEN raised(op, "JSONDecodeError")
    ELSE CASE op = "list_implants" ->
                IF response.key # "implants" THEN raised(op, "KeyError")
                ELSE Return(PyList(response.implants))
           [] op = "get_tasks" ->
                IF ~response.status THEN Return(PyList({}))
                ELSE Return(PyList(response.tasklist))
           [] op = "add_task" ->
                IF ~response.status THEN Return(PyDict({}))
                ELSE Return(PyDict(response.tasklist))
           [] op = "get_task_result" ->
                IF ~response.status THEN Return(PyNone)
                ELSE IF response.result = None THEN Return(PyNone)
                ELSE Return(PyStr(response.result))
           [] op \in {"update_implant_profile", "kill_implant"} ->
                Return(PyNone)

\* the call's own request and what it returns
send_request(up) ==
    /\ call.stage = "request"
    /\ UNCHANGED config
    /\ IF ~up
       THEN /\ finish(raised(call.op, "ConnectionError"))
            /\ UNCHANGED server
       ELSE /\ serve(request_of(call.op, call.arg))
            /\ finish(outcome_of(call.op, resp'))

ClientStart == \E c \in Calls : Start(c)

HandleServerAuth == \E up \in BOOLEAN : handle_server_auth(up)

CheckAuthToken == \E up \in BOOLEAN : check_auth_token(up)

SendRequest == \E up \in BOOLEAN : send_request(up)

\* The client of one operator against the server, with the clock and the
\* implant side.
NextClient ==
    \/ ClientStart
    \/ HandleServerAuth
    \/ CheckAuthToken
    \/ SendRequest
    \/ SetOutput
    \/ Clock

SpecClient == Init /\ [][NextClient]_vars

\* The session-token side alone: no task is ever added.
NextAuth ==
    \/ RequestToken
    \/ RevokeToken
    \/ ListTasks
    \/ Clock

SpecAuth == Init /\ [][NextAuth]_vars

\* request_token with the operator's own credentials
Login ==
    /\ \E o \in Operators : request_token(o, GoodBlob(o))
    /\ UNCHANGED client

\* The task store alone: the clock stands still, and the operators present
\* their own credentials.
NextTasks ==
    \/ Login
    \/ RevokeToken
    \/ ListTasks
    \/ AddTask
    \/ GetTaskResult
    \/ DeleteTask
    \/ SetOutput

SpecTasks == Init /\ [][NextTasks]_vars

\* The task store with room for several tasks: no revocation, no task output.
NextStore ==
    \/ Login
    \/ ListTasks
    \/ AddTask
    \/ GetTaskResult
    \/ DeleteTask

InitStore == Setup(MaxStored)

SpecStore == InitStore /\ [][NextStore]_vars

(************************ the concurrent server *****************************)
(* Requests are served by worker threads, each with a database session of  *)
(* its own.  A handler loads the operator's row (request_token line 79,    *)
(* verify_auth_token line 33) and later acts on the loaded row (lines      *)
(* 107-120, 141-143); other threads' requests run in between.              *)
Threads == 1..NumThreads

InFlight == {t \in Threads : threads[t].pc \in {"request_token", "revoke_token"}}

Completed == {t \in Threads : threads[t].pc = "done"}

\* Bookkeeping when thread t takes up a request: with nothing in flight a new
\* batch of requests begins and the completed ones are forgotten.
Begin(t, pc, operator) ==
    /\ threads[t].pc \in {"idle", "done"}
    /\ threads' = [u \in Threads |->
                     IF u = t
                     THEN [pc |-> pc, operator |-> operator,
                           row |-> operators[operator], token |-> None]
                     ELSE IF InFlight = {} THEN IdleThread ELSE threads[u]]
    /\ batchClean' = IF InFlight = {} THEN TRUE
                     ELSE batchClean /\ Completed = {}

\* request_token, lines 66-101: the request is authenticated, the row loaded
request_token_begin(t, xid, xsig) ==
    /\ authenticate(xid, xsig) = NoReply
    /\ Begin(t, "request_token", xid)
    /\ UNCHANGED <<now, advances, operators, tasks, nextToken, nextTask, req,
                   resp, issued, revoked>>

\* request_token, lines 107-135: reuse or mint, judged on the loaded row
request_token_end(t) ==
    LET operator == threads[t].operator
        row == threads[t].row
    IN  /\ threads[t].pc = "request_token"
        /\ IF still_valid(row, now)
           THEN /\ threads' = [threads EXCEPT ![t].pc = "done",
                                              ![t].token = row.auth_token]
                /\ UNCHANGED <<operators, nextToken>>
           ELSE /\ nextToken <= MaxTokens
                /\ operators' = [operators EXCEPT ![operator] = issued_row(row, now)]
                /\ nextToken' = nextToken + 1
                /\ threads' = [threads EXCEPT ![t].pc = "done",
                                              ![t].token = random_hex]
        /\ UNCHANGED <<now, advances, tasks, nextTask, req, resp, issued,
                       revoked, batchClean>>

\* revoke_token, the @verified wrapper: the bearer token is accepted
revoke_token_begin(t, header) ==
    /\ verified(header, operators, now) = NoReply
    /\ Begin(t, "revoke_token", verify_auth_token(header, operators, now))
    /\ UNCHANGED <<now, advances, operators, tasks, nextToken, nextTask, req,
                   resp, issued, revoked>>

\* revoke_token, lines 141-144
revoke_token_end(t) ==
    /\ threads[t].pc = "revoke_token"
    /\ operators' = [operators EXCEPT ![threads[t].operator] = ClearedRow]
    /\ threads' = [threads EXCEPT ![t].pc = "done"]
    /\ UNCHANGED <<now, advances, tasks, nextToken, nextTask, req, resp,
                   issued, revoked, batchClean>>

RequestTokenBegin ==
    /\ \E t \in Threads, xid \in Operators :
           request_token_begin(t, xid, GoodBlob(xid))
    /\ UNCHANGED client

RequestTokenEnd ==
    /\ \E t \in Threads : request_token_end(t)
    /\ UNCHANGED client

RevokeTokenBegin ==
    /\ \E t \in Threads, h \in Headers : revoke_token_begin(t, h)
    /\ UNCHANGED client

RevokeTokenEnd ==
    /\ \E t \in Threads : revoke_token_end(t)
    /\ UNCHANGED client

NextConc ==
    \/ RequestTokenBegin
    \/ RequestTokenEnd
    \/ RevokeTokenBegin
    \/ RevokeTokenEnd
    \/ Clock

SpecConc == Init /\ [][NextConc]_vars

(****************************** properties **********************************)
\* the operator the gate resolves a header to, in the current state
Caller(h) == verify_auth_token(h, operators, now)

\* a step in which a protected endpoint handles a request with header h
ProtectedStep(h) ==
    \/ revoke_token(h)
    \/ list_tasks(h)
    \/ \E body \in Bodies : add_task(h, body)
    \/ \E i \in PathIds : get_task_result(h, i) \/ delete_task(h, i)

\* C1: an operator B who asks for the result of, or asks to delete, a stored
\* task of another operator A is answered Unauthorized (status false, 401),
\* is not given the task's output, and the task table is left as it was.
TaskOwnershipIsolation ==
    [][LET h == req'.header
           i == req'.task_id
       IN  (/\ req'.ep \in {"get_task_result", "delete_task"}
            /\ (get_task_result(h, i) \/ delete_task(h, i))
            /\ Caller(h) \in Operators
            /\ TaskById(i) # NoTask
            /\ TaskById(i).operator_id # Caller(h))
           => (/\ resp' = Unauthorized
               /\ resp'.status = FALSE
               /\ resp'.code = 401
               /\ resp'.result = None
               /\ tasks' = tasks)]_vars

\* C1 happens: the last request asked for the result of another operator's
\* task, whose output is stored, and was answered Unauthorized.
ForeignResultRefused ==
    /\ req.ep = "get_task_result"
    /\ Caller(req.header) \in Operators
    /\ TaskById(req.task_id) # NoTask
    /\ TaskById(req.task_id).operator_id # Caller(req.header)
    /\ TaskById(req.task_id).output = Output
    /\ resp = Unauthorized

\* C9: for get_task_result and delete_task by an authenticated operator, a
\* task id that is not stored is answered "Unknown task" whoever asks, a stored
\* task of another operator is answered "Unauthorized", the two answers
\* differ, and Unauthorized is given only for task ids that are stored.
ExistenceBeforeOwnership ==
    [][LET h == req'.header
           i == req'.task_id
       IN  (/\ req'.ep \in {"get_task_result", "delete_task"}
            /\ (get_task_result(h, i) \/ delete_task(h, i))
            /\ Caller(h) \in Operators)
           => (/\ TaskById(i) = NoTask => resp' = UnknownTask
               /\ (TaskById(i) # NoTask /\ TaskById(i).operator_id # Caller(h))
                     => resp' = Unauthorized
               /\ resp' = Unauthorized => TaskById(i) # NoTask
               /\ UnknownTask # Unauthorized
               /\ UnknownTask.code # Unauthorized.code)]_vars

\* C9 happens: an authenticated operator asked to delete a task id that is not
\* stored, while a task of another operator is, and was answered Unknown task.
UnknownTaskAnswered ==
    /\ req.ep = "delete_task"
    /\ Caller(req.header) \in Operators
    /\ TaskById(req.task_id) = NoTask
    /\ \E i \in TaskIds : tasks[i] # NoTask
                            /\ tasks[i].operator_id # Caller(req.header)
    /\ resp = UnknownTask

ProtectedEndpoints ==
    {"revoke_token", "list_tasks", "add_task", "get_task_result", "delete_task"}

\* the stored token of operator o is no longer valid: the time is the stored
\* expiry or later
Expired(o) ==
    /\ operators[o].auth_token_expiry # None
    /\ now >= strptime(operators[o].auth_token_expiry)

\* C2: verify_auth_token accepts a bearer token only if it is the stored token
\* of some operator and the time is strictly before that operator's stored
\* expiry; at the expiry and after it the token is rejected.
TokenExpiry ==
    \A h \in Headers :
        Caller(h) \in Operators
        => /\ h.prefix = "Bearer "
           /\ operators[Caller(h)].auth_token = h.rest
           /\ ~Expired(Caller(h))

\* C3: a successful request_token for an operator whose previous successful
\* request_token has been followed by no revocation, and whose token has not
\* expired, returns the token the previous call returned and leaves the
\* operator's stored token and expiry as they were.
TokenIdempotence ==
    [][LET o == req'.xid
       IN  (/\ req'.ep = "request_token"
            /\ o \in Operators
            /\ issued[o] # None
            /\ ~Expired(o)
            /\ resp'.status
            /\ \E xsig \in XSigs : request_token(o, xsig))
           => (/\ resp'.token = issued[o]
               /\ operators' = operators)]_vars

\* C3 happens: the last request was a successful request_token made later
\* than the minting of the token it returned.
TokenReused ==
    /\ req.ep = "request_token"
    /\ resp.status
    /\ req.xid \in Operators
    /\ resp.token = operators[req.xid].auth_token
    /\ ~Expired(req.xid)
    /\ now > strptime(operators[req.xid].auth_token_expiry)
                 - TokenLifetime * TicksPerSecond + TicksPerSecond - 1

\* C4: once the requests of a batch of concurrent request_token and
\* revoke_token requests have all completed, every token handed back by one
\* of them is the stored token of its operator.
TokenUsableAfterConcurrentRequests ==
    (InFlight = {} /\ batchClean)
    => \A t \in Completed :
           threads[t].token # None
           => operators[threads[t].operator].auth_token = threads[t].token

\* C5: a successful revoke_token clears the operator's stored token and
\* expiry; from then on every protected request presenting a revoked token is
\* answered Not authenticated; and a request_token that follows the revocation
\* stores and returns a token that is none of the revoked ones.
Revocation ==
    [][/\ (/\ req'.ep = "revoke_token"
           /\ revoke_token(req'.header)
           /\ resp'.status)
          => operators'[Caller(req'.header)] = ClearedRow
       /\ (/\ req'.ep \in ProtectedEndpoints
           /\ ProtectedStep(req'.header)
           /\ req'.header.prefix = "Bearer "
           /\ req'.header.rest \in revoked)
          => resp' = NotAuthenticated
       /\ (/\ req'.ep = "request_token"
           /\ req'.xid \in Operators
           /\ issued[req'.xid] = None
           /\ resp'.status
           /\ \E xsig \in XSigs : request_token(req'.xid, xsig))
          => (/\ resp'.token # None
              /\ resp'.token \notin revoked
              /\ operators'[req'.xid].auth_token = resp'.token
              /\ operators'[req'.xid].auth_token_expiry # None)]_vars

\* C5 happens: a protected request presenting a revoked token was refused
\* after the operator it belonged to had been issued a new token.
RevokedTokenRefused ==
    /\ req.ep = "list_tasks"
    /\ req.header.prefix = "Bearer "
    /\ req.header.rest \in revoked
    /\ resp = NotAuthenticated
    /\ \E o \in Operators :
           /\ issued[o] # None
           /\ issued[o] > req.header.rest
           /\ operators[o].auth_token = issued[o]

\* a header the gate has to refuse: absent, not a bearer credential, a token
\* stored for no operator, or an expired token
MustReject(h) ==
    \/ h = NoHeader
    \/ h.prefix # "Bearer "
    \/ OperatorByToken(operators, h.rest) = NoOperator
    \/ Expired(OperatorByToken(operators, h.rest))

\* C6: a request to a protected endpoint whose Authorization header is absent,
\* is no bearer credential, carries a token stored for no operator or carries
\* an expired token is answered Not authenticated, and the operator and task
\* records are left unchanged.
AuthenticationGate ==
    [][LET h == req'.header
       IN  (/\ req'.ep \in ProtectedEndpoints
            /\ ProtectedStep(h)
            /\ MustReject(h))
           => (/\ resp' = NotAuthenticated
               /\ operators' = operators
               /\ tasks' = tasks)]_vars

\* the request fails one of the three checks of request_token: the claimed
\* operator is unknown, the blob does not decrypt and verify, or the plaintext
\* is not the operator's login secret
FailsCheck(xid, xsig) ==
    /\ xid \notin {Absent, ""}
    /\ xsig \notin {NoBlob, EmptyBlob}
    /\ \/ xid \notin Operators
       \/ decrypt_and_verify(xsig, xid) # login_secret(xid)

\* C7: the response of request_token to a request that fails one of the three
\* checks is the response it gives to any other request that fails one of them.
UniformAuthenticationFailure ==
    [][\A xsig \in XSigs, xid2 \in XIDs, xsig2 \in XSigs :
         (/\ req'.ep = "request_token"
          /\ FailsCheck(req'.xid, xsig)
          /\ FailsCheck(xid2, xsig2)
          /\ request_token(req'.xid, xsig))
         => resp' = authenticate(xid2, xsig2)]_vars

\* the kinds of credential that are to be refused alike
Rejectable(h) ==
    \/ h = NoHeader
    \/ h.prefix # "Bearer "
    \/ h.rest \in revoked
    \/ h.rest >= nextToken
    \/ /\ OperatorByToken(operators, h.rest) # NoOperator
       /\ Expired(OperatorByToken(operators, h.rest))

\* C8: a protected endpoint answers an expired token, a revoked token, a
\* token that was never issued and a request without bearer credential with
\* one and the same Not authenticated response.
UniformTokenRejection ==
    [][LET h == req'.header
       IN  (/\ req'.ep \in ProtectedEndpoints
            /\ ProtectedStep(h)
            /\ Rejectable(h))
           => resp' = NotAuthenticated]_vars

\* the fields of an add_task body that are missing or invalid
Offending(body) ==
    (required_fields \ body.keys)
        \cup (IF "opcode" \in body.keys /\ body.opcode \notin OpcodeValues
              THEN {"opcode"} ELSE {})

\* C10: an authenticated add_task request with a JSON body is refused with a
\* validation error naming offending fields (at least one, and none that is
\* in order), and stores no task, when a required field is missing or the
\* opcode is not a recognized value; it stores a task only when all three are
\* present and the opcode is recognized.
AddTaskValidation ==
    [][LET h == req'.header
       IN  \A body \in Bodies :
             (/\ req'.ep = "add_task"
              /\ Caller(h) \in Operators
              /\ body.json
              /\ add_task(h, body))
             => IF Offending(body) # {}
                THEN /\ resp'.status = FALSE
                     /\ resp'.code = 400
                     /\ resp'.fields # {}
                     /\ resp'.fields \subseteq Offending(body)
                     /\ tasks' = tasks
                ELSE /\ resp'.status = TRUE
                     /\ tasks' # tasks]_vars

\* C11: a successful add_task stores exactly one task, under an id that held
\* no task and differs from the id of every other stored task, with the
\* authenticated caller as operator_id and no output, and returns it; no
\* request changes the operator_id of a stored task; and a task comes into
\* the table only by add_task, under an id never given out before, so the
\* operator_id of a stored task is always that of the operator who created it.
TaskCreationAndOwner ==
    [][/\ (/\ req'.ep = "add_task"
           /\ resp'.status
           /\ \E body \in Bodies : add_task(req'.header, body))
          => \E i \in TaskIds :
                 /\ tasks[i] = NoTask
                 /\ tasks'[i] # NoTask
                 /\ tasks'[i].operator_id = Caller(req'.header)
                 /\ tasks'[i].output = None
                 /\ resp'.tasklist = {tasks'[i]}
                 /\ \A j \in TaskIds \ {i} :
                        /\ tasks'[j] = tasks[j]
                        /\ tasks'[j].task_id # tasks'[i].task_id
       /\ \A i \in TaskIds :
              (tasks[i] # NoTask /\ tasks'[i] # NoTask)
              => tasks'[i].operator_id = tasks[i].operator_id
       /\ \A i \in TaskIds :
              (tasks[i] = NoTask /\ tasks'[i] # NoTask)
              => (/\ req'.ep = "add_task"
                  /\ tasks'[i].task_id = nextTask
                  /\ \A j \in TaskIds : tasks[j] # NoTask => tasks[j].task_id < nextTask)
       /\ nextTask' >= nextTask]_vars

\* C11 happens: the last request was a successful add_task of one operator
\* while a task of the other operator was stored, and both are stored now.
SecondOwnerStored ==
    /\ req.ep = "add_task"
    /\ resp.status
    /\ \E i, j \in TaskIds :
           /\ tasks[i] # NoTask
           /\ tasks[j] # NoTask
           /\ tasks[i].operator_id # tasks[j].operator_id
           /\ tasks[j].operator_id = Caller(req.header)
           /\ resp.tasklist = {tasks[j]}

\* C12: list_tasks for an authenticated operator answers status true with
\* exactly the stored tasks whose operator_id is that operator's username:
\* each of them is in the list, and the list holds nothing else (no task of
\* another operator, no deleted task); the task table is left as it was.
ListTasksExact ==
    [][LET h == req'.header
       IN  (/\ req'.ep = "list_tasks"
            /\ list_tasks(h)
            /\ Caller(h) \in Operators)
           => (/\ resp'.status
               /\ resp'.code = 200
               /\ \A i \in TaskIds :
                      (tasks[i] # NoTask /\ tasks[i].operator_id = Caller(h))
                      => tasks[i] \in resp'.tasklist
               /\ \A t \in resp'.tasklist :
                      /\ t.operator_id = Caller(h)
                      /\ \E i \in TaskIds : tasks[i] = t
               /\ tasks' = tasks)]_vars

\* C12 happens: an operator was listed a task of their own while a task of
\* another operator was stored, which the list does not hold.
OwnTasksListed ==
    /\ req.ep = "list_tasks"
    /\ resp.status
    /\ resp.tasklist # {}
    /\ \E i \in TaskIds :
           /\ tasks[i] # NoTask
           /\ tasks[i].operator_id # Caller(req.header)
           /\ tasks[i] \notin resp.tasklist

\* task id i was given to a task that is no longer stored
Deleted(i) ==
    /\ i \in TaskIds
    /\ i < nextTask
    /\ tasks[i] = NoTask

\* C13: a successful delete_task removes the task; a task leaves the table
\* only by a successful delete_task of its owner; the id of a deleted task
\* never holds a task again; every later get_task_result or delete_task of an
\* authenticated operator on that id is answered Unknown task; and no
\* list_tasks result holds a task under that id.
DeletionIsPermanent ==
    [][LET h == req'.header
           i == req'.task_id
       IN  /\ (/\ req'.ep = "delete_task"
                /\ delete_task(h, i)
                /\ resp'.status)
               => (/\ tasks[i] # NoTask
                   /\ tasks[i].operator_id = Caller(h)
                   /\ tasks'[i] = NoTask
                   /\ i < nextTask')
           /\ \A j \in TaskIds :
                  (tasks[j] # NoTask /\ tasks'[j] = NoTask)
                  => (req'.ep = "delete_task" /\ resp'.status /\ i = j)
           /\ \A j \in TaskIds : Deleted(j) => Deleted(j)'
           /\ (/\ req'.ep \in {"get_task_result", "delete_task"}
                /\ (get_task_result(h, i) \/ delete_task(h, i))
                /\ Caller(h) \in Operators
                /\ Deleted(i))
               => resp' = UnknownTask
           /\ (req'.ep = "list_tasks" /\ list_tasks(h))
               => \A t \in resp'.tasklist : ~Deleted(t.task_id)]_vars

\* C13 happens: an operator asked for the result of a deleted task while a
\* task added after the deletion was stored, and was answered Unknown task.
DeletedTaskUnknown ==
    /\ req.ep = "get_task_result"
    /\ Caller(req.header) \in Operators
    /\ Deleted(req.task_id)
    /\ resp = UnknownTask
    /\ \E j \in TaskIds : tasks[j] # NoTask /\ j > req.task_id

\* C14: when request_token mints a token, the stored expiry is the time of the
\* request plus 6 hours, in the whole seconds of the stored format, and so
\* never later than that; a request_token that reuses the stored token returns
\* it and leaves token and expiry as they were; no request changes the expiry
\* of a stored token; a token is stored only by the request_token that mints
\* it, under a value never handed out before; and a protected endpoint accepts
\* a token only at or before its stored expiry.  So no token is accepted later
\* than 6 hours after it was minted.
TokenLifetimeFixed ==
    [][LET o == req'.xid
           h == req'.header
           lifetime == TokenLifetime * TicksPerSecond
       IN  /\ (/\ req'.ep = "request_token"
                /\ o \in Operators
                /\ resp'.status
                /\ \E xsig \in XSigs : request_token(o, xsig))
               => IF operators'[o].auth_token # operators[o].auth_token
                  THEN /\ resp'.token = operators'[o].auth_token
                       /\ operators'[o].auth_token_expiry = strftime(now + lifetime)
                       /\ strptime(operators'[o].auth_token_expiry) <= now + lifetime
                       /\ strptime(operators'[o].auth_token_expiry)
                             > now + lifetime - TicksPerSecond
                  ELSE /\ resp'.token = operators[o].auth_token
                       /\ operators'[o] = operators[o]
           /\ \A p \in Operators :
                  (/\ operators[p].auth_token # None
                   /\ operators'[p].auth_token = operators[p].auth_token)
                  => operators'[p].auth_token_expiry = operators[p].auth_token_expiry
           /\ \A p \in Operators :
                  (/\ operators'[p].auth_token # None
                   /\ operators'[p].auth_token # operators[p].auth_token)
                  => (/\ req'.ep = "request_token"
                      /\ p = o
                      /\ operators'[p].auth_token >= nextToken
                      /\ nextToken' > operators'[p].auth_token)
           /\ nextToken' >= nextToken
           /\ (/\ req'.ep \in ProtectedEndpoints
                /\ ProtectedStep(h)
                /\ Caller(h) \in Operators)
               => (/\ operators[Caller(h)].auth_token = h.rest
                   /\ now <= strptime(operators[Caller(h)].auth_token_expiry))]_vars

\* C14 happens: a protected request was served in the last second before the
\* stored expiry of its token, and the token has been returned by a
\* request_token since it was minted.
ServedAtEndOfLifetime ==
    /\ req.ep = "list_tasks"
    /\ resp.status
    /\ Caller(req.header) \in Operators
    /\ now < strptime(operators[Caller(req.header)].auth_token_expiry)
    /\ now >= strptime(operators[Caller(req.header)].auth_token_expiry) - TicksPerSecond
    /\ issued[Caller(req.header)] = req.header.rest

\* C15: for each of the eight members, get_by_name of its name is its value
\* and get_by_value of that value is the name again; get_by_value of its value
\* is its name and get_by_name of that name is the value again; get_by_name
\* gives the member's value for every letter-case spelling of its name; and a
\* name that is no spelling of a member, and a value no member has, give None.
OpcodeRoundTrip ==
    /\ Len(Members) = 8
    /\ call.op = "get_by_name"
       => /\ \A k \in DOMAIN Members :
                 /\ call.arg = Members[k].name
                    => /\ call.result = Members[k].value
                       /\ get_by_value(call.result) = call.arg
                 /\ call.arg \in Spellings(Members[k].name)
                    => call.result = Members[k].value
          /\ call.arg \in OutsideNames => call.result = None
    /\ call.op = "get_by_value"
       => /\ \A k \in DOMAIN Members :
                 call.arg = Members[k].value
                 => /\ call.result = Members[k].name
                    /\ get_by_name(call.result) = call.arg
          /\ call.arg \notin OpcodeValues => call.result = NoName

\* C15 happens: UPDATE_CONFIG was looked up under a spelling in mixed case.
MixedCaseLookedUp ==
    /\ call.op = "get_by_name"
    /\ call.arg \in Spellings(Members[5].name)
    /\ call.arg # Members[5].name
    /\ call.arg # lower(Members[5].name)
    /\ call.result = Opcodes.UPDATE_CONFIG

\* C20: the stored auth_token and auth_token_expiry of every operator are
\* either both null or both set, and verify_auth_token, whatever header it is
\* given, never finds an operator by token whose expiry is null (which
\* strptime would fail on).
TokenAndExpiryTogether ==
    /\ \A o \in Operators :
           (operators[o].auth_token = None) <=> (operators[o].auth_token_expiry = None)
    /\ \A h \in Headers : verify_auth_token(h, operators, now) # Raised
    /\ resp # InternalError

\* C20 happens: after a revocation and a new request_token, one operator has
\* token and expiry set, another has neither, and the last request was served
\* under the token that is set.
SetAndClearedRows ==
    /\ revoked # {}
    /\ \E o, p \in Operators :
           /\ operators[o] = ClearedRow
           /\ operators[p].auth_token # None
           /\ operators[p].auth_token_expiry # None
           /\ req.header = Bearer(operators[p].auth_token)
    /\ resp.status

\* C16: a protected endpoint answers a request that presents an operator's
\* expired token with Not authenticated; and a request_token with that
\* operator's correct credentials, made while the stored token is expired,
\* succeeds with a token that differs from the expired one, was never handed
\* out before, is stored for the operator, and is accepted by the gate of the
\* protected endpoints.
ExpiredTokenForcesReauthentication ==
    [][LET h == req'.header
           o == req'.xid
       IN  /\ (/\ req'.ep \in ProtectedEndpoints
                /\ ProtectedStep(h)
                /\ h.prefix = "Bearer "
                /\ OperatorByToken(operators, h.rest) # NoOperator
                /\ Expired(OperatorByToken(operators, h.rest)))
               => resp' = NotAuthenticated
           /\ (/\ req'.ep = "request_token"
                /\ o \in Operators
                /\ request_token(o, GoodBlob(o))
                /\ operators[o].auth_token # None
                /\ Expired(o))
               => (/\ resp'.status
                   /\ resp'.token # None
                   /\ resp'.token # operators[o].auth_token
                   /\ resp'.token >= nextToken
                   /\ operators'[o].auth_token = resp'.token
                   /\ verify_auth_token(Bearer(resp'.token), operators', now') = o)]_vars

\* C17: when the client's get_task_result sends its request for a stored task
\* of the client's operator, under a token the server accepts, and the request
\* is delivered, it reaches the server's get_task_result handler, is answered
\* status true with the task's output (null while none is set), and the call
\* returns that output.
TaskLifecycle ==
    [][(/\ call.op = "get_task_result"
        /\ call.stage = "request"
        /\ call'.stage = "idle"
        /\ call'.result.error # "ConnectionError"
        /\ TaskById(call.arg) # NoTask
        /\ TaskById(call.arg).operator_id = ClientName
        /\ Caller(Bearer(config.auth_token)) = ClientName)
       => (/\ req'.ep = "get_task_result"
           /\ resp'.status
           /\ resp'.result = TaskById(call.arg).output
           /\ call'.result =
                 Return(IF TaskById(call.arg).output = None THEN PyNone
                        ELSE PyStr(TaskById(call.arg).output)))]_vars

\* the empty values a call can return
EmptyValues == {PyNone, PyList({}), PyDict({}), PyStr(EmptyStr)}

\* the step ends a library call whose request failed: an exception occurred
\* inside the call, or the response to its request has status false
CallFailed ==
    /\ call.stage # "idle"
    /\ call'.stage = "idle"
    /\ \/ call'.result.error # "none"
       \/ call.stage = "request" /\ ~resp'.status

\* C18: when its request fails, list_implants and get_tasks return an empty
\* list, whereas add_task, update_implant_profile and kill_implant do not
\* return normally with an empty value.
FailSoftPolicy ==
    [][CallFailed
       => /\ call.op \in {"list_implants", "get_tasks"}
             => (/\ call'.result.kind = "return"
                 /\ call'.result.value = PyList({}))
          /\ call.op \in {"add_task", "update_implant_profile", "kill_implant"}
             => ~(/\ call'.result.kind = "return"
                  /\ call'.result.value \in EmptyValues)]_vars

\* C19: check_auth_token, when its request is delivered, returns true exactly
\* when the server's gate accepts the token in config; ensure_token runs the
\* challenge flow only when config holds no token or check_auth_token
\* returned false, and otherwise leaves config as it is; and when the
\* challenge flow succeeds, the returned token is stored in config.
EnsureTokenOnlyWhenNeeded ==
    [][LET held == Bearer(config.auth_token)
       IN  /\ (/\ call.stage = "idle"
                /\ call'.stage # "idle")
               => (call'.stage = "auth" <=> config.auth_token = None)
           /\ (/\ call.stage = "check"
                /\ call' # call
                /\ call'.result.error # "ConnectionError")
               => (/\ Caller(held) \in Operators
                      => (call'.stage # "reauth" /\ call'.result.error = "none")
                   /\ Caller(held) \notin Operators => call'.stage = "reauth"
                   /\ config' = config)
           /\ (/\ call.stage \in {"auth", "reauth"}
                /\ call' # call
                /\ call'.result.kind # "exit"
                /\ resp'.code = 200
                /\ req'.ep = "request_token")
               => config'.auth_token = resp'.token]_vars

====
